---------------------------- MODULE Spec2Model ----------------------------
(***************************************************************************)
(* A model of the finance tracker's Flask application (src/app.py): the    *)
(* MongoDB collections as state, one action per request handler, and the   *)
(* custom-month window arithmetic of dashboard_data and                    *)
(* get_recommendations as operators over calendar dates.                   *)
(*                                                                         *)
(* Money is counted in whole currency units (the code uses floats); the    *)
(* two-decimal rounding of the KPIs is modelled in hundredths.             *)
(* A datetime is a record [year, month, day, tod]: tod = 0 is midnight     *)
(* 00:00:00 and tod = 1 is any later time of the same day.                 *)
(***************************************************************************)
EXTENDS Integers, Sequences, FiniteSets, TLC

VARIABLES
    now,            \* the wall clock read by datetime.utcnow()
    users,          \* users_collection: user id -> user document
    categories,     \* categories_collection: category documents in insertion order
    transactions,   \* transactions_collection: documents in insertion order
    resp,           \* the response of the last request
    win,            \* the window locals of the last dashboard/insight request
    activities,     \* activities_collection: documents in insertion order
    user_badges,    \* user_badges_collection: documents in insertion order
    inflight        \* the requests being handled, when their steps interleave

vars == <<now, users, categories, transactions, resp, win, activities, user_badges,
          inflight>>

None == "None"

Max(a, b) == IF a >= b THEN a ELSE b
Min(a, b) == IF a <= b THEN a ELSE b
Abs(x) == IF x < 0 THEN -x ELSE x

(***************************************************************************)
(* The proleptic Gregorian calendar of Python's datetime.                  *)
(***************************************************************************)
IsLeap(y) == y % 4 = 0 /\ (y % 100 # 0 \/ y % 400 = 0)

DaysInMonth(y, m) ==
    IF m = 2 THEN (IF IsLeap(y) THEN 29 ELSE 28)
    ELSE IF m \in {4, 6, 9, 11} THEN 30 ELSE 31

DaysBeforeYear(y) ==
    LET p == y - 1 IN p * 365 + (p \div 4) - (p \div 100) + (p \div 400)

\* _DAYS_BEFORE_MONTH, one more past February of a leap year
DaysBeforeMonth(y, m) ==
    <<0, 31, 59, 90, 120, 151, 181, 212, 243, 273, 304, 334>>[m]
        + (IF m > 2 /\ IsLeap(y) THEN 1 ELSE 0)

\* date.toordinal(): day 1 is 0001-01-01
Ymd2Ord(y, m, d) == DaysBeforeYear(y) + DaysBeforeMonth(y, m) + d

\* date.fromordinal(), by the 400/100/4/1-year cycles
Ord2Ymd(ord) ==
    LET n0   == ord - 1
        n400 == n0 \div 146097
        r400 == n0 % 146097
        n100 == r400 \div 36524
        r100 == r400 % 36524
        n4   == r100 \div 1461
        r4   == r100 % 1461
        n1   == r4 \div 365
        n    == r4 % 365
        year == n400 * 400 + 1 + n100 * 100 + n4 * 4 + n1
    IN  IF n1 = 4 \/ n100 = 4
        THEN <<year - 1, 12, 31>>
        ELSE LET m0 == (n + 50) \div 32
                 m  == IF DaysBeforeMonth(year, m0) > n THEN m0 - 1 ELSE m0
             IN  <<year, m, n - DaysBeforeMonth(year, m) + 1>>

ValidDate(y, m, d) == m \in 1..12 /\ d \in 1..DaysInMonth(y, m)

\* the value standing for a raised ValueError where a datetime is expected
NoDate == [year |-> 0, month |-> 0, day |-> 0, tod |-> 0]

IsError(dt) == dt.year = 0

\* datetime(y, m, d): midnight of that day, ValueError when no such day exists
datetime(y, m, d) ==
    IF ValidDate(y, m, d)
    THEN [year |-> y, month |-> m, day |-> d, tod |-> 0]
    ELSE NoDate

toordinal(dt) == Ymd2Ord(dt.year, dt.month, dt.day)

\* dt - timedelta(days=k): the time of day is kept
MinusDays(dt, k) ==
    LET ymd == Ord2Ymd(toordinal(dt) - k)
    IN  [year |-> ymd[1], month |-> ymd[2], day |-> ymd[3], tod |-> dt.tod]

\* the order of datetimes ($gte / $lte on a date field, >= on datetimes)
DtLe(a, b) ==
    \/ a.year < b.year
    \/ a.year = b.year /\ a.month < b.month
    \/ a.year = b.year /\ a.month = b.month /\ a.day < b.day
    \/ a.year = b.year /\ a.month = b.month /\ a.day = b.day /\ a.tod <= b.tod

DateOf(dt) == <<dt.year, dt.month, dt.day>>

(***************************************************************************)
(* JSON / BSON scalars: an integer, null, a non-numeric string, or a key   *)
(* that is absent from the document; a number with a fractional part,      *)
(* given by its integer part (15.7 is JFloat(15)), and a string of digits. *)
(***************************************************************************)
JInt(n)  == [t |-> "int", n |-> n]
JFloat(n) == [t |-> "float", n |-> n]
JNumStr(n) == [t |-> "numstr", n |-> n]
JNone    == [t |-> "none", n |-> 0]
JStr     == [t |-> "str", n |-> 0]
JMissing == [t |-> "missing", n |-> 0]

(***************************************************************************)
(* The custom-month window.                                                *)
(***************************************************************************)
\* User.__init__: user_data.get('month_start_day', 1)
current_user_month_start_day(user_data) ==
    IF user_data.month_start_day.t = "missing"
    THEN JInt(1)
    ELSE user_data.month_start_day

\* start_day_of without the clamp: current_user.month_start_day or 1
start_day_unclamped(msd) ==
    IF msd.t = "none" \/ (msd.t = "int" /\ msd.n = 0) THEN 1 ELSE msd.n

\* max(1, min(28, current_user.month_start_day or 1))
start_day_of(msd) ==
    LET v == IF msd.t = "none" \/ (msd.t = "int" /\ msd.n = 0) THEN 1 ELSE msd.n
    IN  Max(1, Min(28, v))

\* month_start with today.day > start_day for today.day >= start_day
month_start_strict(today, start_day) ==
    IF today.day > start_day
    THEN datetime(today.year, today.month, start_day)
    ELSE LET prev_month == IF today.month - 1 # 0 THEN today.month - 1 ELSE 12
             prev_year  == IF prev_month = 12 THEN today.year - 1 ELSE today.year
         IN  datetime(prev_year, prev_month, start_day)

\* dashboard_data: the start of the window that holds today
month_start(today, start_day) ==
    IF today.day >= start_day
    THEN datetime(today.year, today.month, start_day)
    ELSE LET prev_month == IF today.month - 1 # 0 THEN today.month - 1 ELSE 12
             prev_year  == IF prev_month = 12 THEN today.year - 1 ELSE today.year
         IN  datetime(prev_year, prev_month, start_day)

\* next_month_start without the December branch's year + 1
next_month_start_same_year(ms, start_day) ==
    IF IsError(ms) THEN NoDate
    ELSE IF ms.month = 12
    THEN datetime(ms.year, 1, start_day)
    ELSE datetime(ms.year, ms.month + 1, start_day)

\* dashboard_data: the start of the window after the one starting at ms
next_month_start(ms, start_day) ==
    IF IsError(ms) THEN NoDate
    ELSE IF ms.month = 12
    THEN datetime(ms.year + 1, 1, start_day)
    ELSE datetime(ms.year, ms.month + 1, start_day)

\* dashboard_data: next month start - 1 day
month_end(ms, start_day) ==
    LET nms == next_month_start(ms, start_day)
    IN  IF IsError(nms) THEN NoDate ELSE MinusDays(nms, 1)

\* this_start without the previous-month branch
this_start_same_month(today, start_day) ==
    datetime(today.year, today.month, start_day)

\* get_recommendations: the start of the current window
this_start(today, start_day) ==
    IF today.day >= start_day
    THEN datetime(today.year, today.month, start_day)
    ELSE LET pm == IF today.month - 1 # 0 THEN today.month - 1 ELSE 12
             py == IF pm = 12 THEN today.year - 1 ELSE today.year
         IN  datetime(py, pm, start_day)

\* get_recommendations: the start of the following window
next_start(ts, start_day) ==
    IF IsError(ts) THEN NoDate
    ELSE IF ts.month = 12
    THEN datetime(ts.year + 1, 1, start_day)
    ELSE datetime(ts.year, ts.month + 1, start_day)

\* get_recommendations: next_start - 1 day
this_end(ts, start_day) ==
    LET ns == next_start(ts, start_day)
    IN  IF IsError(ns) THEN NoDate ELSE MinusDays(ns, 1)

\* get_recommendations: this_start - 1 day
prev_end(ts) == IF IsError(ts) THEN NoDate ELSE MinusDays(ts, 1)

\* prev_start without the January branch's year - 1
prev_start_same_year(ts, start_day) ==
    IF IsError(ts) THEN NoDate
    ELSE IF ts.month = 1
    THEN datetime(ts.year, 12, start_day)
    ELSE datetime(ts.year, ts.month - 1, start_day)

\* get_recommendations: the start of the window before the one starting at ts
prev_start(ts, start_day) ==
    IF IsError(ts) THEN NoDate
    ELSE IF ts.month = 1
    THEN datetime(ts.year - 1, 12, start_day)
    ELSE datetime(ts.year, ts.month - 1, start_day)

\* the window locals of dashboard_data
dashboard_window(today, user_data) ==
    LET sd == start_day_of(current_user_month_start_day(user_data))
        ms == month_start(today, sd)
        me == month_end(ms, sd)
    IN  [kind |-> "dashboard", today |-> today, start_day |-> sd,
         failed |-> IsError(ms) \/ IsError(me),
         start |-> ms, end |-> me, prev_start |-> NoDate, prev_end |-> NoDate]

\* the window locals of get_recommendations
recommendations_window(today, user_data) ==
    LET sd == start_day_of(current_user_month_start_day(user_data))
        ts == this_start(today, sd)
        te == this_end(ts, sd)
        ps == prev_start(ts, sd)
    IN  [kind |-> "recommendations", today |-> today, start_day |-> sd,
         failed |-> IsError(ts) \/ IsError(te) \/ IsError(ps),
         start |-> ts, end |-> te, prev_start |-> ps, prev_end |-> prev_end(ts)]

NoWindow ==
    [kind |-> "none", today |-> NoDate, start_day |-> 0, failed |-> FALSE,
     start |-> NoDate, end |-> NoDate, prev_start |-> NoDate, prev_end |-> NoDate]

(***************************************************************************)
(* Queries over the collections.                                           *)
(***************************************************************************)
\* collection.find({...}) is SelectSeq: the matching documents in natural
\* (insertion) order
\* {'$group': {'_id': None, 'total': {'$sum': '$amount'}}}
RECURSIVE sum_amount(_)
sum_amount(rows) ==
    IF rows = <<>> THEN 0 ELSE rows[1].amount + sum_amount(Tail(rows))

\* result[0]['total'] if result else 0.0 : an empty match yields no group
aggregate_total(rows) == IF rows = <<>> THEN 0 ELSE sum_amount(rows)

InWindow(t, lo, hi) == DtLe(lo, t.date) /\ DtLe(t.date, hi)

\* month_match without the user_id condition
month_match_all_users(coll, u, type, lo, hi) ==
    SelectSeq(coll, LAMBDA t : t.type = type /\ InWindow(t, lo, hi))

\* the $match of the month income / month expense pipelines
month_match(coll, u, type, lo, hi) ==
    SelectSeq(coll,
         LAMBDA t : t.user_id = u /\ t.type = type /\ InWindow(t, lo, hi))

\* the $match of the all-time income / expense pipelines
total_match(coll, u, type) ==
    SelectSeq(coll, LAMBDA t : t.user_id = u /\ t.type = type)

\* categories_collection.find_one({'_id': category_id})['name'], else 'Uncategorized'
find_one_category(category_id) ==
    SelectSeq(categories, LAMBDA c : c.id = category_id)

category_key(t) ==
    IF t.category_id # None
    THEN IF find_one_category(t.category_id) # <<>>
         THEN find_one_category(t.category_id)[1].name
         ELSE "Uncategorized"
    ELSE "Uncategorized"

\* dict_add that stores the last amount of a key instead of adding to it
dict_add_overwrite(out, key, v) ==
    IF \E i \in 1..Len(out) : out[i].cat = key
    THEN [i \in 1..Len(out) |->
            IF out[i].cat = key THEN [cat |-> key, val |-> v] ELSE out[i]]
    ELSE Append(out, [cat |-> key, val |-> v])

\* out[key] = out.get(key, 0.0) + abs(t['amount']) on an insertion-ordered dict,
\* kept as a sequence of [cat, val] entries
dict_add(out, key, v) ==
    IF \E i \in 1..Len(out) : out[i].cat = key
    THEN [i \in 1..Len(out) |->
            IF out[i].cat = key THEN [cat |-> key, val |-> out[i].val + v] ELSE out[i]]
    ELSE Append(out, [cat |-> key, val |-> v])

RECURSIVE by_cat_from(_, _)
by_cat_from(rows, out) ==
    IF rows = <<>> THEN out
    ELSE by_cat_from(Tail(rows), dict_add(out, category_key(rows[1]), Abs(rows[1].amount)))

\* by_cat(rows) of get_recommendations; the category_data loop of dashboard_data
by_cat(rows) == by_cat_from(rows, <<>>)

\* daily_data: every fetched day is a key, expenses add their absolute amount
daily_data_of(txns) ==
    [d \in {DateOf(txns[i].date) : i \in 1..Len(txns)} |->
        LET day == SelectSeq(txns, LAMBDA t : DateOf(t.date) = d /\ t.type = "expense")
        IN  sum_amount([i \in 1..Len(day) |-> [amount |-> Abs(day[i].amount)]])]

\* round(p / q, 0) for q > 0, ties to even as Python's round
RoundDiv(p, q) ==
    LET f == p \div q
        r == p % q
    IN  IF 2 * r > q \/ (2 * r = q /\ f % 2 = 1) THEN f + 1 ELSE f

\* savings_rate_of without the income > 0 guard
savings_rate_unguarded(income, expense) ==
    IF income = 0
    THEN [div0 |-> TRUE, x100 |-> 0]
    ELSE IF income > 0
    THEN [div0 |-> FALSE, x100 |-> RoundDiv((income - expense) * 10000, income)]
    ELSE [div0 |-> FALSE, x100 |-> RoundDiv((expense - income) * 10000, -income)]

\* (savings / income) * 100.0 if income > 0 else 0.0, in hundredths of a percent
\* as round(savings_rate, 2) reports it; div0 stands for ZeroDivisionError
savings_rate_of(income, expense) ==
    IF income > 0
    THEN [div0 |-> FALSE, x100 |-> RoundDiv((income - expense) * 10000, income)]
    ELSE [div0 |-> FALSE, x100 |-> 0]

\* current_balance_of over the transactions of the current calendar month only
current_balance_this_month(coll, u) ==
    LET recent(type) ==
            SelectSeq(coll,
                 LAMBDA t : t.user_id = u /\ t.type = type
                            /\ t.date.year = now.year /\ t.date.month = now.month)
    IN  aggregate_total(recent("income")) - aggregate_total(recent("expense"))

\* float(total_income) - float(total_expense) over all of the user's transactions
current_balance_of(coll, u) ==
    aggregate_total(total_match(coll, u, "income"))
        - aggregate_total(total_match(coll, u, "expense"))

(***************************************************************************)
(* Responses.                                                              *)
(***************************************************************************)
NoResp == [kind |-> "none", status |-> 0]

Reply(kind, status, msg) == [kind |-> kind, status |-> status, message |-> msg]

\* the JSON body of /api/dashboard-data for window w, read from the
\* transactions collection coll
dashboard_body(coll, u, today, w) ==
    LET six_months_ago  == MinusDays(today, 180)
        txns            == SelectSeq(coll,
                                LAMBDA t : t.user_id = u /\ DtLe(six_months_ago, t.date))
        cats_this_month == month_match(coll, u, "expense", w.start, w.end)
        month_income    == aggregate_total(month_match(coll, u, "income", w.start, w.end))
        month_expense   == aggregate_total(month_match(coll, u, "expense", w.start, w.end))
        rate            == savings_rate_of(month_income, month_expense)
    IN  IF rate.div0
        THEN Reply("dashboard", 500, "ZeroDivisionError")
        ELSE [kind |-> "dashboard", status |-> 200, user |-> u,
              daily_data |-> daily_data_of(txns),
              category_data |-> by_cat(cats_this_month),
              current_balance |-> current_balance_of(coll, u),
              month_income |-> month_income,
              month_expense |-> month_expense,
              savings_rate |-> rate.x100,
              currency |-> IF users[u].currency_code = "" THEN "INR"
                           ELSE users[u].currency_code]

(***************************************************************************)
(* GET /api/dashboard-data, arriving at time today.                        *)
(***************************************************************************)
dashboard_data(u, today) ==
    /\ u \in DOMAIN users
    /\ now' = today
    /\ LET w == dashboard_window(today, users[u])
       IN  /\ win' = w
           /\ resp' = IF w.failed
                      THEN Reply("dashboard", 500, "ValueError")
                      ELSE dashboard_body(transactions, u, today, w)
    /\ UNCHANGED <<users, categories, transactions, activities, user_badges, inflight>>

(***************************************************************************)
(* POST /api/transactions with JSON body data, arriving at time today.     *)
(***************************************************************************)
\* float(amount) succeeds on a number
amount_ok(amount) == amount.t = "int"

\* datetime.strptime(t_date_str, '%Y-%m-%d') if t_date_str else datetime.utcnow()
t_date_of(t_date_str, today) ==
    IF t_date_str # <<>>
    THEN datetime(t_date_str[1], t_date_str[2], t_date_str[3])
    ELSE today

\* a string that ObjectId(...) refuses with InvalidId
MalformedId == "nosuch"

\* ObjectId(category_id) succeeds
object_id_ok(category_id) == category_id # MalformedId

\* category_ok that accepts the category of any owner
category_ok_any_owner(u, category_id) ==
    category_id # None => find_one_category(category_id) # <<>>

\* category optional; if provided, ensure accessible
category_ok(u, category_id) ==
    category_id # None =>
        /\ find_one_category(category_id) # <<>>
        /\ find_one_category(category_id)[1].user_id \in {0, u}

transaction_doc(u, data, today) ==
    [user_id |-> u, type |-> data.type, amount |-> data.amount.n,
     category_id |-> data.category_id, date |-> t_date_of(data.date, today)]

transactions_api(u, data, today) ==
    /\ u \in DOMAIN users
    /\ now' = today
    /\ win' = NoWindow
    /\ UNCHANGED <<users, categories, activities, user_badges, inflight>>
    /\ IF ~amount_ok(data.amount)
       THEN resp' = Reply("transactions", 400, "Invalid amount") /\ UNCHANGED transactions
       ELSE IF data.type \notin {"income", "expense"}
       THEN resp' = Reply("transactions", 400, "Invalid type") /\ UNCHANGED transactions
       ELSE IF IsError(t_date_of(data.date, today))
       THEN resp' = Reply("transactions", 400, "Invalid date") /\ UNCHANGED transactions
       ELSE IF data.category_id # None /\ ~object_id_ok(data.category_id)
       THEN resp' = Reply("transactions", 500, "InvalidId") /\ UNCHANGED transactions
       ELSE IF ~category_ok(u, data.category_id)
       THEN resp' = Reply("transactions", 400, "Invalid category") /\ UNCHANGED transactions
       ELSE /\ transactions' = Append(transactions, transaction_doc(u, data, today))
            /\ resp' = Reply("transactions", 201, "Transaction added")

(***************************************************************************)
(* GET /api/recommendations, arriving at time today.                       *)
(***************************************************************************)
dict_get(d, key) ==
    IF \E i \in 1..Len(d) : d[i].cat = key
    THEN d[CHOOSE i \in 1..Len(d) : d[i].cat = key].val
    ELSE 0

\* change_pct_of that reports no change for a category new in this window
change_pct_unsaturated(cur_val, prev_val) ==
    IF prev_val > 0
    THEN [num |-> (cur_val - prev_val) * 100, den |-> prev_val]
    ELSE [num |-> 0, den |-> 1]

\* change_pct as the exact fraction num / den, den > 0
change_pct_of(cur_val, prev_val) ==
    IF prev_val > 0
    THEN [num |-> (cur_val - prev_val) * 100, den |-> prev_val]
    ELSE [num |-> 100, den |-> 1]

\* the deltas loop: one (cat, cur_val, prev_val, change_pct) per current category
RECURSIVE deltas_from(_, _)
deltas_from(cur, prev) ==
    IF cur = <<>> THEN <<>>
    ELSE LET cat      == cur[1].cat
             cur_val  == cur[1].val
             prev_val == dict_get(prev, cat)
             rest     == deltas_from(Tail(cur), prev)
         IN  IF prev_val = 0 /\ cur_val = 0
             THEN rest
             ELSE <<[cat |-> cat, cur_val |-> cur_val, prev_val |-> prev_val,
                     change_pct |-> change_pct_of(cur_val, prev_val)]>> \o rest

\* a.change_pct > b.change_pct
PctGreater(a, b) ==
    a.change_pct.num * b.change_pct.den > b.change_pct.num * a.change_pct.den

\* insert_desc that puts x before the entries equal to it
RECURSIVE insert_desc_before_equal(_, _)
insert_desc_before_equal(sorted, x) ==
    IF sorted = <<>> THEN <<x>>
    ELSE IF ~PctGreater(sorted[1], x)
    THEN <<x>> \o sorted
    ELSE <<sorted[1]>> \o insert_desc_before_equal(Tail(sorted), x)

\* one step of a stable descending insertion: x goes after every entry that is
\* not smaller than it
RECURSIVE insert_desc(_, _)
insert_desc(sorted, x) ==
    IF sorted = <<>> THEN <<x>>
    ELSE IF PctGreater(x, sorted[1])
    THEN <<x>> \o sorted
    ELSE <<sorted[1]>> \o insert_desc(Tail(sorted), x)

RECURSIVE sort_from(_, _)
sort_from(rows, sorted) ==
    IF rows = <<>> THEN sorted
    ELSE sort_from(Tail(rows), insert_desc(sorted, rows[1]))

\* deltas.sort(key=lambda x: x[3], reverse=True): stable, descending
sort_deltas(deltas) == sort_from(deltas, <<>>)

\* max(cur_by_cat.items(), key=lambda kv: kv[1]): the first entry of maximal value
high_cat_of(cur) ==
    cur[CHOOSE i \in 1..Len(cur) :
            /\ \A j \in 1..Len(cur) : cur[j].val <= cur[i].val
            /\ \A j \in 1..(i - 1) : cur[j].val < cur[i].val]

Insight(kind, cat, word, pct_x10, a, b, c) ==
    [kind |-> kind, cat |-> cat, word |-> word, pct_x10 |-> pct_x10,
     a |-> a, b |-> b, c |-> c]

\* '{top_cat} up {round(change_pct, 1)}% vs last month'
top_mover_insight(d) ==
    Insight("top_mover", d.cat, "up", RoundDiv(d.change_pct.num * 10, d.change_pct.den),
            d.cur_val, d.prev_val, 0)

\* 'Highest spend: {high_cat[0]}'
highest_spend_insight(e) == Insight("highest_spend", e.cat, "", 0, e.val, 0, 0)

\* 'Savings rate {round(rate, 1)}% this month', rate = max(0.0, savings / income * 100)
savings_insight(income_val, expense_val) ==
    LET savings == income_val - expense_val
    IN  Insight("savings_rate", "", "",
                Max(0, RoundDiv(savings * 1000, income_val)),
                income_val, expense_val, savings)

fallback_insight == Insight("fallback", "", "", 0, 0, 0, 0)

\* insights_of that reports the savings of a window without income as well
insights_of_savings_always(deltas, cur_by_cat, income_val, expense_val) ==
    LET i1 == IF deltas # <<>> THEN <<top_mover_insight(deltas[1])>> ELSE <<>>
        i2 == IF cur_by_cat # <<>>
              THEN <<highest_spend_insight(high_cat_of(cur_by_cat))>> ELSE <<>>
        i3 == IF income_val > 0
              THEN <<savings_insight(income_val, expense_val)>>
              ELSE <<Insight("savings_rate", "", "", 0, income_val, expense_val,
                             income_val - expense_val)>>
        all == i1 \o i2 \o i3
    IN  SubSeq(all, 1, Min(3, Len(all)))

\* insights_of that ends every answer short of three insights with the fallback
insights_of_with_fallback(deltas, cur_by_cat, income_val, expense_val) ==
    LET i1 == IF deltas # <<>> THEN <<top_mover_insight(deltas[1])>> ELSE <<>>
        i2 == IF cur_by_cat # <<>>
              THEN <<highest_spend_insight(high_cat_of(cur_by_cat))>> ELSE <<>>
        i3 == IF income_val > 0
              THEN <<savings_insight(income_val, expense_val)>> ELSE <<>>
        all == i1 \o i2 \o i3 \o <<fallback_insight>>
    IN  SubSeq(all, 1, Min(3, Len(all)))

insights_of(deltas, cur_by_cat, income_val, expense_val) ==
    LET i1 == IF deltas # <<>> THEN <<top_mover_insight(deltas[1])>> ELSE <<>>
        i2 == IF cur_by_cat # <<>>
              THEN <<highest_spend_insight(high_cat_of(cur_by_cat))>> ELSE <<>>
        i3 == IF income_val > 0
              THEN <<savings_insight(income_val, expense_val)>> ELSE <<>>
        insights == i1 \o i2 \o i3
        all == IF insights = <<>> THEN <<fallback_insight>> ELSE insights
    IN  SubSeq(all, 1, Min(3, Len(all)))

\* the locals of get_recommendations past the window
recommendations_locals(coll, u, w) ==
    LET cur_by_cat   == by_cat(month_match(coll, u, "expense", w.start, w.end))
        prev_by_cat  == by_cat(month_match(coll, u, "expense", w.prev_start, w.prev_end))
        income_this  == aggregate_total(month_match(coll, u, "income", w.start, w.end))
        expense_this == aggregate_total(month_match(coll, u, "expense", w.start, w.end))
    IN  [cur_by_cat |-> cur_by_cat, prev_by_cat |-> prev_by_cat,
         deltas |-> sort_deltas(deltas_from(cur_by_cat, prev_by_cat)),
         income_this |-> income_this, expense_this |-> expense_this]

get_recommendations(u, today) ==
    /\ u \in DOMAIN users
    /\ now' = today
    /\ LET w == recommendations_window(today, users[u])
       IN  /\ win' = w
           /\ resp' = IF w.failed
                      THEN Reply("recommendations", 500, "ValueError")
                      ELSE LET l == recommendations_locals(transactions, u, w)
                           IN  [kind |-> "recommendations", status |-> 200, user |-> u,
                                locals |-> l,
                                insights |-> insights_of(l.deltas, l.cur_by_cat,
                                                         l.income_this, l.expense_this)]
    /\ UNCHANGED <<users, categories, transactions, activities, user_badges, inflight>>

(***************************************************************************)
(* POST /api/categories with JSON body data, arriving at time today.       *)
(***************************************************************************)
\* the document inserted for a category of user u; its _id is fresh
category_doc(u, data) ==
    [id |-> "user:" \o ToString(Len(categories) + 1), user_id |-> u,
     name |-> data.name, type |-> data.type, is_default |-> FALSE]

categories_api(u, data, today) ==
    /\ u \in DOMAIN users
    /\ now' = today
    /\ win' = NoWindow
    /\ UNCHANGED <<users, transactions, activities, user_badges, inflight>>
    /\ IF data.name = "" \/ data.type \notin {"income", "expense"}
       THEN resp' = Reply("categories", 400, "Invalid category") /\ UNCHANGED categories
       ELSE /\ categories' = Append(categories, category_doc(u, data))
            /\ resp' = Reply("categories", 201, data.name)

(***************************************************************************)
(* POST /register and POST /settings.                                      *)
(***************************************************************************)
\* generate_password_hash(password)
generate_password_hash(password) == "hash:" \o password

default_income_names == <<"Salary", "Bonus", "Interest", "Other Income">>

default_expense_names ==
    <<"Food", "Rent", "Transport", "Utilities", "Entertainment", "Shopping",
      "Health", "Education", "Bills", "Other">>

default_category(name, type) ==
    [id |-> "default:" \o name, user_id |-> 0, name |-> name, type |-> type,
     is_default |-> TRUE]

\* seed_default_categories without the "once" check
seed_default_categories_always(cats) ==
    cats
    \o [i \in 1..Len(default_income_names) |->
           default_category(default_income_names[i], "income")]
    \o [i \in 1..Len(default_expense_names) |->
           default_category(default_expense_names[i], "expense")]

\* seed_default_categories: create the global defaults once
seed_default_categories(cats) ==
    IF ~\E i \in 1..Len(cats) : cats[i].is_default
    THEN cats
         \o [i \in 1..Len(default_income_names) |->
                default_category(default_income_names[i], "income")]
         \o [i \in 1..Len(default_expense_names) |->
                default_category(default_expense_names[i], "expense")]
    ELSE cats

create_user(username, email, password_hash) ==
    [username |-> username, email |-> email, password_hash |-> password_hash,
     total_carbon_footprint |-> 0, streak_days |-> 0, last_activity_date |-> NoDate,
     currency_code |-> "INR", month_start_day |-> JInt(1)]

register(data, today) ==
    /\ now' = today
    /\ win' = NoWindow
    /\ UNCHANGED <<transactions, activities, user_badges, inflight>>
    /\ IF \E u \in DOMAIN users : users[u].username = data.username
       THEN /\ resp' = Reply("register", 400, "Username already exists")
            /\ UNCHANGED <<users, categories>>
       ELSE IF \E u \in DOMAIN users : users[u].email = data.email
       THEN /\ resp' = Reply("register", 400, "Email already exists")
            /\ UNCHANGED <<users, categories>>
       ELSE /\ users' = Append(users, create_user(data.username, data.email,
                                                  generate_password_hash(data.password)))
            /\ categories' = seed_default_categories(categories)
            /\ resp' = Reply("register", 201, "Registration successful")

\* currency.upper()
upper(c) == IF c = "usd" THEN "USD" ELSE IF c = "inr" THEN "INR" ELSE c

\* int(month_start_day) succeeds: on an int, on a float (truncated toward
\* zero) and on a string of digits; it raises on anything else
int_ok(v) == v.t \in {"int", "float", "numstr"}

\* the month_start_day block without the 1 <= msd <= 28 check
settings_month_start_day_unchecked(user_data, month_start_day) ==
    LET cur == current_user_month_start_day(user_data)
        src == IF month_start_day.t \in {"none", "missing"} THEN cur ELSE month_start_day
    IN  IF int_ok(src) THEN JInt(src.n) ELSE user_data.month_start_day

\* the month_start_day block: the new stored value, or the old one when the
\* submitted value is ignored
settings_month_start_day(user_data, month_start_day) ==
    LET cur == current_user_month_start_day(user_data)
        src == IF month_start_day.t \in {"none", "missing"} THEN cur ELSE month_start_day
    IN  IF int_ok(src) /\ 1 <= src.n /\ src.n <= 28
        THEN JInt(src.n)
        ELSE user_data.month_start_day

settings(u, data, today) ==
    /\ u \in DOMAIN users
    /\ now' = today
    /\ win' = NoWindow
    /\ UNCHANGED <<categories, transactions, activities, user_badges, inflight>>
    /\ LET username  == data.username
           email     == data.email
           currency  == IF data.currency_code = "" THEN "INR" ELSE data.currency_code
           name_new  == username # "" /\ username # users[u].username
           email_new == email # "" /\ email # users[u].email
       IN  IF name_new /\ \E v \in DOMAIN users : users[v].username = username
           THEN resp' = Reply("settings", 400, "Username already taken") /\ UNCHANGED users
           ELSE IF email_new /\ \E v \in DOMAIN users : users[v].email = email
           THEN resp' = Reply("settings", 400, "Email already taken") /\ UNCHANGED users
           ELSE IF data.new_password # "" /\ data.new_password # data.confirm_password
           THEN resp' = Reply("settings", 400, "Passwords do not match") /\ UNCHANGED users
           ELSE IF data.new_password # "" /\ Len(data.new_password) < 6
           THEN resp' = Reply("settings", 400, "Password must be at least 6 characters")
                /\ UNCHANGED users
           ELSE /\ users' = [users EXCEPT ![u] =
                      [@ EXCEPT
                         !.username = IF name_new THEN username ELSE @,
                         !.email = IF email_new THEN email ELSE @,
                         !.currency_code = upper(currency),
                         !.month_start_day = settings_month_start_day(users[u],
                                                                      data.month_start_day),
                         !.password_hash = IF data.new_password # ""
                                           THEN generate_password_hash(data.new_password)
                                           ELSE @]]
                /\ resp' = Reply("settings", 200, "Settings updated")

(***************************************************************************)
(* The application: requests arrive one at a time, at non-decreasing       *)
(* times drawn from Clock.                                                 *)
(***************************************************************************)
MaxTxns == 2

\* the times at which requests arrive: around the leap day, never exactly midnight
ClockDates == {<<2024, 2, 29>>, <<2024, 3, 1>>}

Clock ==
    {[year |-> d[1], month |-> d[2], day |-> d[3], tod |-> 1] : d \in ClockDates}

Later == {t \in Clock : DtLe(now, t)}

RegisterInputs ==
    {[username |-> "alice", email |-> "alice@example.com", password |-> "secret1"]}

SettingsInputs ==
    {[username |-> "", email |-> "", currency_code |-> "", month_start_day |-> m,
      new_password |-> "", confirm_password |-> ""] :
        m \in {JInt(28), JInt(29), JNone}}

\* a request either names no category and no date, or a category and a date
ValidTxnInputs ==
    {[type |-> type, amount |-> amount, category_id |-> rest[1], date |-> rest[2]] :
        type \in {"income", "expense"},
        amount \in {JInt(30), JInt(-10)},
        rest \in {<<None, <<>>>>, <<"default:Food", <<2024, 2, 29>>>>}}

InvalidTxnInputs ==
    {[type |-> "expense", amount |-> JStr, category_id |-> None, date |-> <<>>],
     [type |-> "transfer", amount |-> JInt(30), category_id |-> None, date |-> <<>>],
     [type |-> "expense", amount |-> JInt(30), category_id |-> None,
      date |-> <<2024, 2, 30>>],
     [type |-> "expense", amount |-> JInt(30), category_id |-> "nosuch", date |-> <<>>]}

TxnInputs == ValidTxnInputs \cup InvalidTxnInputs

Init ==
    /\ now \in Clock
    /\ users = <<>>
    /\ categories = <<>>
    /\ transactions = <<>>
    /\ resp = NoResp
    /\ win = NoWindow
    /\ activities = <<>>
    /\ user_badges = <<>>
    /\ inflight = <<>>

Register == \E today \in Later, data \in RegisterInputs : register(data, today)

Settings ==
    \E today \in Later, u \in DOMAIN users, data \in SettingsInputs :
        settings(u, data, today)

PostTransaction ==
    \E today \in Later, u \in DOMAIN users, data \in TxnInputs :
        Len(transactions) < MaxTxns /\ transactions_api(u, data, today)

DashboardData == \E today \in Later, u \in DOMAIN users : dashboard_data(u, today)

GetRecommendations ==
    \E today \in Later, u \in DOMAIN users : get_recommendations(u, today)

Next ==
    \/ Register
    \/ Settings
    \/ PostTransaction
    \/ DashboardData
    \/ GetRecommendations

Spec == Init /\ [][Next]_vars

(***************************************************************************)
(* The window computation alone: a stored user document with any           *)
(* month_start_day, read at any time of NumDays consecutive days.          *)
(***************************************************************************)
NumDays == 122

FirstDay == Ymd2Ord(2023, 12, 1)

MaxStoredDay == 31

StoredStartDays ==
    {JMissing, JNone} \cup {JInt(n) : n \in (-2)..MaxStoredDay}

WindowClock ==
    {[year |-> Ord2Ymd(o)[1], month |-> Ord2Ymd(o)[2], day |-> Ord2Ymd(o)[3],
      tod |-> h] : o \in FirstDay..(FirstDay + NumDays - 1), h \in {0, 1}}

InitWindow ==
    /\ now \in WindowClock
    /\ \E s \in StoredStartDays :
          users = <<[create_user("alice", "alice@example.com", "hash:secret1")
                        EXCEPT !.month_start_day = s]>>
    /\ categories = seed_default_categories(<<>>)
    /\ transactions = <<>>
    /\ resp = NoResp
    /\ win = NoWindow
    /\ activities = <<>>
    /\ user_badges = <<>>
    /\ inflight = <<>>

WindowDashboardData == \E u \in DOMAIN users : dashboard_data(u, now)

WindowGetRecommendations == \E u \in DOMAIN users : get_recommendations(u, now)

NextWindow ==
    \/ WindowDashboardData
    \/ WindowGetRecommendations

SpecWindow == InitWindow /\ [][NextWindow]_vars

(***************************************************************************)
(* Accounts, categories and the validation of posted transactions: two     *)
(* users register, create categories of their own and post transactions.   *)
(***************************************************************************)
MaxUserCats == 1

MaxAccountTxns == 1

AccountsRegisterInputs ==
    {[username |-> "alice", email |-> "alice@example.com", password |-> "secret1"],
     [username |-> "bob", email |-> "bob@example.com", password |-> "secret2"]}

CategoryInputs ==
    {[name |-> "Pets", type |-> "expense"], [name |-> "", type |-> "expense"]}

\* the ids the categories created by the users get
UserCategoryIds ==
    {"user:" \o ToString(Len(default_income_names) + Len(default_expense_names) + n) :
        n \in 1..MaxUserCats}

AccountsTxnInputs ==
    {[type |-> "expense", amount |-> JInt(30), category_id |-> c,
      date |-> <<2024, 2, 29>>] : c \in {None, "default:Food"} \cup UserCategoryIds}
    \cup InvalidTxnInputs

UserOwned(cats) == SelectSeq(cats, LAMBDA c : c.user_id # 0)

AccountsRegister ==
    \E today \in Later, data \in AccountsRegisterInputs : register(data, today)

AccountsPostCategory ==
    \E today \in Later, u \in DOMAIN users, data \in CategoryInputs :
        /\ categories_api(u, data, today)
        /\ Len(UserOwned(categories')) <= MaxUserCats

AccountsPostTransaction ==
    \E today \in Later, u \in DOMAIN users, data \in AccountsTxnInputs :
        /\ transactions_api(u, data, today)
        /\ Len(transactions') <= MaxAccountTxns

NextAccounts ==
    \/ AccountsRegister
    \/ AccountsPostCategory
    \/ AccountsPostTransaction

SpecAccounts == Init /\ [][NextAccounts]_vars

(***************************************************************************)
(* The settings of two registered users.                                   *)
(***************************************************************************)
\* "" and JMissing stand for a field the request does not carry
FrameSettingsInputs ==
    {[username |-> "", email |-> "", currency_code |-> "", month_start_day |-> JMissing,
      new_password |-> "", confirm_password |-> ""],
     [username |-> "", email |-> "", currency_code |-> "usd", month_start_day |-> JMissing,
      new_password |-> "", confirm_password |-> ""],
     [username |-> "", email |-> "", currency_code |-> "", month_start_day |-> JInt(15),
      new_password |-> "secret3", confirm_password |-> "secret3"],
     [username |-> "carol", email |-> "carol@example.com", currency_code |-> "",
      month_start_day |-> JMissing, new_password |-> "", confirm_password |-> ""],
     [username |-> "", email |-> "", currency_code |-> "", month_start_day |-> JMissing,
      new_password |-> "short", confirm_password |-> "short"]}

\* requests that submit a month_start_day, with or without a currency
StartDaySettingsInputs ==
    {[username |-> "", email |-> "", currency_code |-> c, month_start_day |-> m,
      new_password |-> "", confirm_password |-> ""] :
        c \in {"", "usd"},
        m \in {JInt(0), JInt(7), JInt(29), JFloat(0), JFloat(15), JFloat(28),
               JNumStr(9), JStr, JNone}}

SettingsPost ==
    \E today \in Later, u \in DOMAIN users, data \in FrameSettingsInputs :
        settings(u, data, today)

NextSettings ==
    \/ AccountsRegister
    \/ SettingsPost

SpecSettings == Init /\ [][NextSettings]_vars

(***************************************************************************)
(* Registrations and POST /settings requests that submit a start day.      *)
(***************************************************************************)
StartDayPost ==
    \E today \in Later, u \in DOMAIN users, data \in StartDaySettingsInputs :
        settings(u, data, today)

NextStartDay == AccountsRegister \/ StartDayPost

SpecStartDay == Init /\ [][NextStartDay]_vars

(***************************************************************************)
(* Properties of the window computation, checked under SpecWindow.         *)
(***************************************************************************)
Computed == win.kind # "none"

Ok == resp.status = 200

\* the calendar month before (y, m), as <<year, month>>
MonthBefore(y, m) == IF m = 1 THEN <<y - 1, 12>> ELSE <<y, m - 1>>

\* the calendar month after (y, m), as <<year, month>>
MonthAfter(y, m) == IF m = 12 THEN <<y + 1, 1>> ELSE <<y, m + 1>>

\* C1: for every start day s in 1..28 and every reference date d, the current
\* window of dashboard_data and of get_recommendations starts at midnight of
\* day s of d's own month when d.day >= s, and otherwise of day s of the
\* previous calendar month (January rolls back to December of the year before).
C1_WindowStart ==
    Computed =>
        LET s == win.start_day
            d == win.today
        IN  /\ ~IsError(win.start)
            /\ win.start.day = s
            /\ win.start.tod = 0
            /\ <<win.start.year, win.start.month>> =
                  IF d.day >= s THEN <<d.year, d.month>> ELSE MonthBefore(d.year, d.month)

\* the spec's example: s = 25, d = 2024-03-10 gives a start of 2024-02-25
C1_Witness ==
    /\ win.kind = "recommendations"
    /\ win.start_day = 25
    /\ DateOf(win.today) = <<2024, 3, 10>>
    /\ DateOf(win.start) = <<2024, 2, 25>>

\* C2: the window end is exactly one day before day s of the month following
\* the window start's month (December rolls forward to January of the next
\* year); every window is non-empty and spans 28 to 31 calendar days.
C2_WindowEnd ==
    Computed =>
        LET s    == win.start_day
            nxt  == MonthAfter(win.start.year, win.start.month)
            span == toordinal(win.end) - toordinal(win.start) + 1
        IN  /\ ~win.failed
            /\ win.end.tod = 0
            /\ toordinal(win.end) + 1 = Ymd2Ord(nxt[1], nxt[2], s)
            /\ span \in 28..31

\* a window that starts in December and ends in January of the next year
C2_Witness ==
    /\ win.kind = "dashboard"
    /\ win.start.month = 12
    /\ win.end.month = 1
    /\ win.end.year = win.start.year + 1
    /\ toordinal(win.end) - toordinal(win.start) + 1 = 31

\* the days at which the window computation is compared with the one of today
NearbyDays == (toordinal(win.today) - 62)..(toordinal(win.today) + 62)

DayAt(o) ==
    LET ymd == Ord2Ymd(o)
    IN  [year |-> ymd[1], month |-> ymd[2], day |-> ymd[3], tod |-> 1]

\* the current window of the handler that ran last, computed for the date d
WindowOf(d) ==
    IF win.kind = "dashboard"
    THEN LET ms == month_start(d, win.start_day)
         IN  <<toordinal(ms), toordinal(month_end(ms, win.start_day))>>
    ELSE LET ts == this_start(d, win.start_day)
         IN  <<toordinal(ts), toordinal(this_end(ts, win.start_day))>>

\* C3: for a fixed start day, every calendar date lies inside the window
\* computed from it, and the windows computed from two dates are identical or
\* disjoint.
C3_OneWindowPerDate ==
    Computed =>
        LET lo == toordinal(win.start)
            hi == toordinal(win.end)
        IN  /\ ~win.failed
            /\ lo <= toordinal(win.today)
            /\ toordinal(win.today) <= hi
            /\ \A o \in NearbyDays :
                  LET w == WindowOf(DayAt(o))
                  IN  \/ w = <<lo, hi>>
                      \/ w[2] < lo
                      \/ hi < w[1]

\* today is the first day of its window, and the day before is in another one
C3_Witness ==
    /\ win.kind = "recommendations"
    /\ win.start_day = 15
    /\ DateOf(win.today) = <<2024, 1, 15>>
    /\ DateOf(win.start) = <<2024, 1, 15>>
    /\ WindowOf(DayAt(toordinal(win.today) - 1))[2] = toordinal(win.start) - 1

\* C4: the previous window of get_recommendations ends the day before the
\* current window starts and begins on day s of the month before the current
\* start's month; the current-window computation applied to any date of the
\* previous window returns that previous window.
C4_PreviousWindow ==
    win.kind = "recommendations" =>
        LET s      == win.start_day
            before == MonthBefore(win.start.year, win.start.month)
        IN  /\ ~win.failed
            /\ toordinal(win.prev_end) + 1 = toordinal(win.start)
            /\ win.prev_end.tod = 0
            /\ win.prev_start = datetime(before[1], before[2], s)
            /\ \A o \in toordinal(win.prev_start)..toordinal(win.prev_end) :
                  LET ts == this_start(DayAt(o), s)
                  IN  /\ ts = win.prev_start
                      /\ this_end(ts, s) = win.prev_end

\* the spec's example: s = 1, now = 2024-03-15 gives 2024-02-01..2024-02-29
C4_Witness ==
    /\ win.kind = "recommendations"
    /\ win.start_day = 1
    /\ DateOf(win.today) = <<2024, 3, 15>>
    /\ DateOf(win.prev_start) = <<2024, 2, 1>>
    /\ DateOf(win.prev_end) = <<2024, 2, 29>>

\* C8: whatever integer (or null, or nothing) is stored as month_start_day, the
\* start day used by dashboard_data and get_recommendations is in 1..28: a
\* value below 1 acts as 1, a value above 28 as 28, and the request succeeds.
C8_StartDayClamped ==
    Computed =>
        LET stored == users[1].month_start_day
        IN  /\ win.start_day \in 1..28
            /\ stored.t = "int" /\ stored.n \in 1..28 => win.start_day = stored.n
            /\ stored.t = "int" /\ stored.n > 28 => win.start_day = 28
            /\ stored.t # "int" \/ stored.n < 1 => win.start_day = 1
            /\ ~win.failed
            /\ Ok

\* a stored 31 is used as 28 in a February window
C8_Witness ==
    /\ win.kind = "dashboard"
    /\ users[1].month_start_day = JInt(31)
    /\ win.start_day = 28
    /\ win.today.month = 2
    /\ Ok

(***************************************************************************)
(* Properties of the dashboard, checked under Spec.                        *)
(***************************************************************************)
Dashboard == resp.kind = "dashboard" /\ Ok

RECURSIVE SumVals(_)
SumVals(d) == IF d = <<>> THEN 0 ELSE d[1].val + SumVals(Tail(d))

\* the transactions of user u, in insertion order
TxnsOf(u) == SelectSeq(transactions, LAMBDA t : t.user_id = u)

\* the calendar date of t is one of the days start..end of window w
DateInWindow(t, w) ==
    /\ toordinal(w.start) <= toordinal(t.date)
    /\ toordinal(t.date) <= toordinal(w.end)

RECURSIVE SumAbs(_)
SumAbs(rows) == IF rows = <<>> THEN 0 ELSE Abs(rows[1].amount) + SumAbs(Tail(rows))

\* C5: window totals are inclusive on both ends: every expense of the user whose
\* calendar date d satisfies window.start <= d <= window.end is counted in the
\* category breakdown of that window, a transaction dated on the window's last
\* day and stored with a time of day included.
C5_InclusiveWindow ==
    Dashboard =>
        SumVals(resp.category_data) =
            SumAbs(SelectSeq(TxnsOf(resp.user),
                             LAMBDA t : t.type = "expense" /\ DateInWindow(t, win)))

\* C6: the month expense KPI equals the sum of the values of the expense
\* category breakdown of the same window, whatever the sign of the stored
\* amounts.
C6_ExpenseKpiIsBreakdownSum ==
    Dashboard => resp.month_expense = SumVals(resp.category_data)

\* C7: every stored transaction has amount >= 0.
C7_AmountsNonNegative ==
    \A i \in 1..Len(transactions) : transactions[i].amount >= 0

\* C9: savings_rate is (month_income - month_expense) / month_income * 100,
\* rounded to two decimals, when month_income > 0 and 0 otherwise; the request
\* never fails on a division by zero; with no transactions month_income,
\* month_expense, balance and savings_rate are all 0.
C9_SavingsRate ==
    resp.kind = "dashboard" =>
        /\ Ok
        /\ resp.month_income > 0 =>
              LET exact == (resp.month_income - resp.month_expense) * 10000
              IN  2 * Abs(resp.savings_rate * resp.month_income - exact)
                      <= resp.month_income
        /\ resp.month_income <= 0 => resp.savings_rate = 0
        /\ TxnsOf(resp.user) = <<>> =>
              /\ resp.month_income = 0
              /\ resp.month_expense = 0
              /\ resp.current_balance = 0
              /\ resp.savings_rate = 0

\* income 30 and expense -10 in the window: (30 + 10) / 30 * 100 = 133.33
C9_Witness ==
    /\ Dashboard
    /\ resp.month_income = 30
    /\ resp.month_expense = -10
    /\ resp.savings_rate = 13333

\* income minus expense over rows, whatever their dates
RECURSIVE NetOf(_)
NetOf(rows) ==
    IF rows = <<>> THEN 0
    ELSE (IF rows[1].type = "income" THEN rows[1].amount ELSE -rows[1].amount)
             + NetOf(Tail(rows))

\* the dashboard of user u at time d, were the stored month_start_day s
DashboardWith(u, d, s) ==
    dashboard_body(transactions, u, d,
                   dashboard_window(d, [users[u] EXCEPT !.month_start_day = JInt(s)]))

\* the collection without its i-th document
Without(coll, i) == SubSeq(coll, 1, i - 1) \o SubSeq(coll, i + 1, Len(coll))

\* C10: current_balance is all-time income minus all-time expense over every
\* transaction of the user, the same for every month start day and reference
\* date; a transaction dated outside the window is part of the balance and not
\* of month_income or month_expense (without it the balance differs and the
\* month totals do not).
C10_BalanceIsAllTime ==
    Dashboard =>
        /\ resp.current_balance = NetOf(TxnsOf(resp.user))
        /\ \A d \in Clock, s \in 1..28 :
              DashboardWith(resp.user, d, s).current_balance = resp.current_balance
        /\ \A i \in 1..Len(transactions) :
              LET t == transactions[i]
                  b == dashboard_body(Without(transactions, i), resp.user, win.today, win)
              IN  (t.user_id = resp.user /\ ~DateInWindow(t, win)) =>
                     /\ b.month_income = resp.month_income
                     /\ b.month_expense = resp.month_expense
                     /\ b.current_balance = resp.current_balance - NetOf(<<t>>)
                     /\ b.current_balance # resp.current_balance

\* a dashboard whose balance counts a transaction dated outside its window
C10_Witness ==
    /\ Dashboard
    /\ \E i \in 1..Len(transactions) :
          /\ transactions[i].user_id = resp.user
          /\ ~DateInWindow(transactions[i], win)
    /\ resp.current_balance # resp.month_income - resp.month_expense

(***************************************************************************)
(* The insights and the breakdown over a populated store: two registered   *)
(* users, the seeded categories, and up to MaxRows transactions posted     *)
(* with explicit dates in the previous and the current window of           *)
(* 2024-03-15 (month start day 1).                                         *)
(***************************************************************************)
MaxRows == 3

InsightsNow == [year |-> 2024, month |-> 3, day |-> 15, tod |-> 1]

InsightsUsers ==
    <<create_user("alice", "alice@example.com", generate_password_hash("secret1")),
      create_user("bob", "bob@example.com", generate_password_hash("secret2"))>>

\* the requests the two users have posted, each with its user
InsightsRequests ==
    {<<1, [type |-> "expense", amount |-> JInt(a), category_id |-> "default:Food",
           date |-> d]>> :
        a \in {50, 100}, d \in {<<2024, 2, 10>>, <<2024, 3, 5>>}}
    \cup
    {<<1, [type |-> "expense", amount |-> JInt(a), category_id |-> None,
           date |-> <<2024, 3, 5>>]>> : a \in {50, 100}}
    \cup
    {<<1, [type |-> "expense", amount |-> JInt(0), category_id |-> "default:Food",
           date |-> <<2024, 3, 5>>]>>,
     <<1, [type |-> "income", amount |-> JInt(100), category_id |-> None,
           date |-> <<2024, 3, 5>>]>>}
    \cup
    {<<2, [type |-> type, amount |-> JInt(100), category_id |-> "default:Food",
           date |-> <<2024, 3, 5>>]>> : type \in {"income", "expense"}}

\* the documents transactions_api stores for them
InsightsRows == {transaction_doc(r[1], r[2], InsightsNow) : r \in InsightsRequests}

InitInsights ==
    /\ now = InsightsNow
    /\ users = InsightsUsers
    /\ categories = seed_default_categories(<<>>)
    /\ transactions \in UNION {[1..k -> InsightsRows] : k \in 0..MaxRows}
    /\ resp = NoResp
    /\ win = NoWindow
    /\ activities = <<>>
    /\ user_badges = <<>>
    /\ inflight = <<>>

InsightsDashboardData == \E u \in DOMAIN users : dashboard_data(u, now)

InsightsGetRecommendations == \E u \in DOMAIN users : get_recommendations(u, now)

NextInsights ==
    \/ InsightsDashboardData
    \/ InsightsGetRecommendations

SpecInsights == InitInsights /\ [][NextInsights]_vars

(***************************************************************************)
(* Properties of the insights and of the breakdown, checked under          *)
(* SpecInsights (C14 under Spec).                                          *)
(***************************************************************************)
Recommendations == resp.kind = "recommendations" /\ Ok

\* the name under which transaction t is grouped
CategoryNameOf(t) ==
    IF t.category_id = None
       \/ ~\E i \in 1..Len(categories) : categories[i].id = t.category_id
    THEN "Uncategorized"
    ELSE categories[CHOOSE i \in 1..Len(categories) :
                        categories[i].id = t.category_id].name

\* the positions of the expenses of user u dated lo..hi
ExpensesIn(u, lo, hi) ==
    {i \in 1..Len(transactions) :
        /\ transactions[i].user_id = u
        /\ transactions[i].type = "expense"
        /\ DtLe(lo, transactions[i].date)
        /\ DtLe(transactions[i].date, hi)}

KeysIn(u, lo, hi) == {CategoryNameOf(transactions[i]) : i \in ExpensesIn(u, lo, hi)}

\* the sum of the absolute amounts of the transactions at the positions idx
RECURSIVE AbsTotal(_)
AbsTotal(idx) ==
    IF idx = {} THEN 0
    ELSE LET i == CHOOSE i \in idx : TRUE
         IN  Abs(transactions[i].amount) + AbsTotal(idx \ {i})

\* what user u spent under the name key in lo..hi
SpendIn(u, lo, hi, key) ==
    AbsTotal({i \in ExpensesIn(u, lo, hi) : CategoryNameOf(transactions[i]) = key})

\* what user u earned in lo..hi
IncomeIn(u, lo, hi) ==
    NetOf(SelectSeq(transactions,
                    LAMBDA t : /\ t.user_id = u
                               /\ t.type = "income"
                               /\ DtLe(lo, t.date)
                               /\ DtLe(t.date, hi)))

Cats(d) == {d[i].cat : i \in 1..Len(d)}

\* C11: the delta list holds exactly the categories of the current-window
\* expense breakdown except those whose current and previous values are both 0,
\* each once, with its current and previous spend; changePct is
\* (cur - prev) / prev * 100 when prev > 0 and 100 when prev = 0 and cur > 0;
\* a category with spend only in the previous window is not in the list.
C11_DeltaList ==
    Recommendations =>
        LET u       == resp.user
            d       == resp.locals.deltas
            cur(k)  == SpendIn(u, win.start, win.end, k)
            prev(k) == SpendIn(u, win.prev_start, win.prev_end, k)
        IN  /\ Cats(d) = {k \in KeysIn(u, win.start, win.end) :
                              ~(cur(k) = 0 /\ prev(k) = 0)}
            /\ Cardinality(Cats(d)) = Len(d)
            /\ \A i \in 1..Len(d) :
                  /\ d[i].cur_val = cur(d[i].cat)
                  /\ d[i].prev_val = prev(d[i].cat)
                  /\ d[i].change_pct.den > 0
                  /\ d[i].prev_val > 0 =>
                        d[i].change_pct.num * d[i].prev_val =
                            (d[i].cur_val - d[i].prev_val) * 100 * d[i].change_pct.den
                  /\ d[i].prev_val = 0 /\ d[i].cur_val > 0 =>
                        d[i].change_pct.num = 100 * d[i].change_pct.den
            /\ \A k \in KeysIn(u, win.prev_start, win.prev_end) :
                  k \notin KeysIn(u, win.start, win.end) => k \notin Cats(d)

\* the spec's example: Food 100 this window and 50 the previous one is +100%,
\* next to a category that is new in this window
C11_Witness ==
    /\ Recommendations
    /\ \E i \in 1..Len(resp.locals.deltas) :
          LET e == resp.locals.deltas[i]
          IN  /\ e.cat = "Food"
              /\ e.cur_val = 100
              /\ e.prev_val = 50
              /\ e.change_pct.num = 100 * e.change_pct.den
    /\ \E i \in 1..Len(resp.locals.deltas) :
          /\ resp.locals.deltas[i].prev_val = 0
          /\ resp.locals.deltas[i].cur_val > 0

\* the percentage of entry a is greater than / equal to the one of entry b
GreaterPct(a, b) ==
    a.change_pct.num * b.change_pct.den > b.change_pct.num * a.change_pct.den

EqualPct(a, b) ==
    a.change_pct.num * b.change_pct.den = b.change_pct.num * a.change_pct.den

\* the position of the first current-window expense of user u grouped under key:
\* the place of key in the iteration order of the breakdown
FirstOf(u, key) ==
    LET idx == {i \in ExpensesIn(u, win.start, win.end) :
                   CategoryNameOf(transactions[i]) = key}
    IN  CHOOSE i \in idx : \A j \in idx : i <= j

\* C12: the delta list is in descending changePct order, entries of equal
\* changePct in the iteration order of the current-window breakdown, and the
\* top-mover insight names the first category in that order among those of
\* maximal changePct.
C12_StableDescending ==
    Recommendations =>
        LET u == resp.user
            d == resp.locals.deltas
        IN  /\ \A i, j \in 1..Len(d) :
                  i < j =>
                     \/ GreaterPct(d[i], d[j])
                     \/ /\ EqualPct(d[i], d[j])
                        /\ FirstOf(u, d[i].cat) < FirstOf(u, d[j].cat)
            /\ d # <<>> =>
                  /\ resp.insights[1].kind = "top_mover"
                  /\ resp.insights[1].cat = d[1].cat
                  /\ \A j \in 1..Len(d) :
                        /\ ~GreaterPct(d[j], d[1])
                        /\ EqualPct(d[j], d[1]) =>
                              FirstOf(u, d[1].cat) <= FirstOf(u, d[j].cat)

\* two new categories tie at 100%: the one spent on first is the top mover,
\* although the other one has the larger amount
C12_Witness ==
    /\ Recommendations
    /\ Len(resp.locals.deltas) = 2
    /\ EqualPct(resp.locals.deltas[1], resp.locals.deltas[2])
    /\ resp.locals.deltas[1].cat = "Uncategorized"
    /\ resp.locals.deltas[2].cat = "Food"
    /\ resp.locals.deltas[2].cur_val > resp.locals.deltas[1].cur_val
    /\ resp.insights[1].cat = "Uncategorized"

\* C13: the title of the top-mover insight says "up" when the changePct of the
\* top category is positive and "down" when it is negative.
C13_TopMoverDirection ==
    (Recommendations /\ resp.locals.deltas # <<>>) =>
        LET top == resp.insights[1]
            pct == resp.locals.deltas[1].change_pct
        IN  /\ top.kind = "top_mover"
            /\ pct.num > 0 => top.word = "up"
            /\ pct.num < 0 => top.word = "down"

Kinds(insights) == [i \in 1..Len(insights) |-> insights[i].kind]

\* C14: the answer of get_recommendations holds a savings-rate insight exactly
\* when the income of the user in the current window is > 0.
C14_SavingsInsightIffIncome ==
    Recommendations =>
        ((\E i \in 1..Len(resp.insights) : resp.insights[i].kind = "savings_rate")
            <=> IncomeIn(resp.user, win.start, win.end) > 0)

\* income in the window, next to an income dated before it: the savings
\* insight is there, after the others, and reports the income of the window
C14_Witness ==
    /\ Recommendations
    /\ IncomeIn(resp.user, win.start, win.end) > 0
    /\ \E i \in 1..Len(transactions) :
          /\ transactions[i].user_id = resp.user
          /\ transactions[i].type = "income"
          /\ ~DtLe(win.start, transactions[i].date)
    /\ resp.insights[Len(resp.insights)].kind = "savings_rate"
    /\ resp.insights[Len(resp.insights)].a = IncomeIn(resp.user, win.start, win.end)

\* which of the three insights qualify for user u in the current window
TopMoverQualifies(u) ==
    \E k \in KeysIn(u, win.start, win.end) :
        ~(SpendIn(u, win.start, win.end, k) = 0
          /\ SpendIn(u, win.prev_start, win.prev_end, k) = 0)

HighestSpendQualifies(u) == KeysIn(u, win.start, win.end) # {}

SavingsQualifies(u) == IncomeIn(u, win.start, win.end) > 0

\* C15: get_recommendations answers 1 to 3 insights: those of top mover, highest
\* spend and savings rate that qualify, in this order; the fallback is answered
\* exactly when none of them qualifies, and then alone.
C15_InsightsShape ==
    resp.kind = "recommendations" =>
        LET u         == resp.user
            qualified == (IF TopMoverQualifies(u) THEN <<"top_mover">> ELSE <<>>)
                         \o (IF HighestSpendQualifies(u) THEN <<"highest_spend">> ELSE <<>>)
                         \o (IF SavingsQualifies(u) THEN <<"savings_rate">> ELSE <<>>)
        IN  /\ Ok
            /\ Len(resp.insights) \in 1..3
            /\ Kinds(resp.insights) =
                  IF qualified = <<>> THEN <<"fallback">> ELSE qualified

\* all three insights qualify and are answered in the fixed order
C15_Witness ==
    /\ Recommendations
    /\ Kinds(resp.insights) = <<"top_mover", "highest_spend", "savings_rate">>
    /\ resp.insights[1].cat # resp.insights[2].cat

\* the breakdown d, as the function from its keys to their totals
Totals(d) == [k \in Cats(d) |-> d[CHOOSE i \in 1..Len(d) : d[i].cat = k].val]

Reverse(rows) == [i \in 1..Len(rows) |-> rows[Len(rows) + 1 - i]]

\* the breakdown d is the one of the expenses of user u dated lo..hi: one key
\* per category name, its total the sum of the absolute amounts
BreakdownOf(d, u, lo, hi) ==
    /\ Cats(d) = KeysIn(u, lo, hi)
    /\ Cardinality(Cats(d)) = Len(d)
    /\ \A i \in 1..Len(d) : d[i].val = SpendIn(u, lo, hi, d[i].cat)
    /\ SumVals(d) = AbsTotal(ExpensesIn(u, lo, hi))
    /\ Totals(by_cat(Reverse(month_match(transactions, u, "expense", lo, hi)))) = Totals(d)

OwnOnly(u) == SelectSeq(transactions, LAMBDA t : t.user_id = u)

\* C18: the answers of dashboard_data and get_recommendations to a user are
\* computed from that user's transactions only: they are the answers over the
\* store from which every other user's transactions are removed, so two stores
\* that agree on the user's transactions give the same answers.
C18_OwnTransactionsOnly ==
    /\ Dashboard =>
          resp = dashboard_body(OwnOnly(resp.user), resp.user, win.today, win)
    /\ Recommendations =>
          LET l == recommendations_locals(OwnOnly(resp.user), resp.user, win)
          IN  /\ resp.locals = l
              /\ resp.insights = insights_of(l.deltas, l.cur_by_cat,
                                             l.income_this, l.expense_this)

\* alice's dashboard over a store that also holds an expense and an income of bob
C18_Witness ==
    /\ Dashboard
    /\ resp.user = 1
    /\ resp.month_expense = 50
    /\ resp.month_income = 0
    /\ resp.current_balance = -50
    /\ \E i, j \in 1..Len(transactions) :
          /\ transactions[i].user_id = 2 /\ transactions[i].type = "expense"
          /\ transactions[j].user_id = 2 /\ transactions[j].type = "income"

(***************************************************************************)
(* Properties of the validation of transactions and of the seeding of      *)
(* categories, checked under SpecAccounts.                                 *)
(***************************************************************************)
\* the category with this id, as a set of at most one document
CategoryWithId(id) == {categories[i] : i \in {j \in 1..Len(categories) : categories[j].id = id}}

\* the request data of user u is one the claim wants rejected
InvalidRequest(u, data) ==
    \/ data.amount.t # "int"
    \/ data.type \notin {"income", "expense"}
    \/ data.date # <<>> /\ ~ValidDate(data.date[1], data.date[2], data.date[3])
    \/ /\ data.category_id # None
       /\ \A c \in CategoryWithId(data.category_id) : c.user_id \notin {0, u}

\* C17: a POST /api/transactions with an invalid amount, a type other than
\* income/expense, an unparseable date, or a category that does not exist or
\* belongs to another user is answered with an error and leaves the stored
\* transactions unchanged; every stored transaction has a type in
\* {income, expense} and a category that is absent, global, or owned by the
\* user of the transaction.
C17_InvalidRejected ==
    /\ [](\A i \in 1..Len(transactions) :
             LET t == transactions[i]
             IN  /\ t.type \in {"income", "expense"}
                 /\ t.category_id # None =>
                       /\ CategoryWithId(t.category_id) # {}
                       /\ \A c \in CategoryWithId(t.category_id) :
                             c.user_id \in {0, t.user_id})
    /\ [][\A u \in DOMAIN users, data \in AccountsTxnInputs, today \in Clock :
             (transactions_api(u, data, today) /\ InvalidRequest(u, data)) =>
                 /\ resp'.kind = "transactions"
                 /\ resp'.status >= 400
                 /\ transactions' = transactions]_vars

\* a transaction with the category of its own user is stored, and a later
\* request with a category is rejected
C17_Witness ==
    /\ Len(users) = 2
    /\ resp = Reply("transactions", 400, "Invalid category")
    /\ \E i \in 1..Len(transactions) :
          /\ transactions[i].category_id \in UserCategoryIds
          /\ \E c \in CategoryWithId(transactions[i].category_id) :
                c.user_id = transactions[i].user_id

DefaultNames ==
    {default_income_names[i] : i \in 1..Len(default_income_names)}
    \cup {default_expense_names[i] : i \in 1..Len(default_expense_names)}

\* C19: after any sequence of successful registrations the store holds each of
\* the 14 global default categories exactly once, and a registration leaves the
\* categories owned by users as they are.
C19_SeedingIdempotent ==
    /\ [](users # <<>> =>
             /\ Cardinality(DefaultNames) = 14
             /\ \A name \in DefaultNames :
                   Cardinality({i \in 1..Len(categories) :
                                   /\ categories[i].name = name
                                   /\ categories[i].user_id = 0
                                   /\ categories[i].is_default}) = 1
             /\ Cardinality({i \in 1..Len(categories) :
                                categories[i].user_id = 0 \/ categories[i].is_default}) = 14)
    /\ [][resp'.kind = "register" => UserOwned(categories') = UserOwned(categories)]_vars

\* the second registration succeeds after a user has created a category
C19_Witness ==
    /\ Len(users) = 2
    /\ resp = Reply("register", 201, "Registration successful")
    /\ UserOwned(categories) # <<>>
    /\ Len(categories) = 14 + Len(UserOwned(categories))

(***************************************************************************)
(* Properties of the settings, checked under SpecSettings.                 *)
(***************************************************************************)
\* C20: a successful POST /settings changes only the fields the request
\* supplies: without currency_code (or with an empty one) the stored
\* currency_code stays, and so do username, email, month_start_day and the
\* password when they are omitted; the other users are untouched.
C20_SettingsFrame ==
    [][\A u \in DOMAIN users, data \in FrameSettingsInputs, today \in Clock :
          (settings(u, data, today) /\ resp'.status = 200) =>
              /\ data.currency_code = "" =>
                    users'[u].currency_code = users[u].currency_code
              /\ data.username = "" => users'[u].username = users[u].username
              /\ data.email = "" => users'[u].email = users[u].email
              /\ data.month_start_day = JMissing =>
                    users'[u].month_start_day = users[u].month_start_day
              /\ data.new_password = "" =>
                    users'[u].password_hash = users[u].password_hash
              /\ \A v \in DOMAIN users : v # u => users'[v] = users[v]]_vars

(***************************************************************************)
(* C21: the stored month start day.                                        *)
(***************************************************************************)
Submitted(data) == data.month_start_day.t \notin {"none", "missing"}

\* the submitted value is not an integer: a number with a fraction, or text
NotAnInteger(v) == v.t \in {"float", "str"}

\* the submitted number lies outside 1..28 (a float n + fraction is below 1
\* when n <= 0 and above 28 when n >= 28)
OutOfRange(v) ==
    \/ v.t \in {"int", "numstr"} /\ ~(1 <= v.n /\ v.n <= 28)
    \/ v.t = "float" /\ (v.n <= 0 \/ v.n >= 28)

\* int() raises on the value, or its result lies outside 1..28
NotStorable(v) == ~int_ok(v) \/ ~(1 <= v.n /\ v.n <= 28)

StartDayStored ==
    \A u \in DOMAIN users :
        /\ users[u].month_start_day.t = "int"
        /\ users[u].month_start_day.n \in 1..28

\* the request went through and applied its other field
OthersApplied(u, data) ==
    /\ resp'.status = 200
    /\ data.currency_code # "" => users'[u].currency_code = upper(data.currency_code)

\* C21 as stated: every stored month_start_day is an integer in 1..28, and a
\* submitted value that is not an integer or is out of range is ignored
\* without failing the request, the other submitted fields still applied.
C21_StartDayIgnored ==
    /\ []StartDayStored
    /\ [][\A u \in DOMAIN users, data \in StartDaySettingsInputs, today \in Clock :
            ( /\ settings(u, data, today)
              /\ Submitted(data)
              /\ (NotAnInteger(data.month_start_day) \/ OutOfRange(data.month_start_day)) )
            => ( /\ users'[u].month_start_day = users[u].month_start_day
                 /\ OthersApplied(u, data) )]_vars

\* C21 amended: every stored month_start_day is an integer in 1..28; a
\* submitted value that int() cannot convert, or converts to a number outside
\* 1..28, is ignored without failing the request, the other submitted fields
\* still applied; a value int() converts into 1..28 (a fractional number is
\* truncated toward zero first) is stored as that integer.
C21_StartDayConverted ==
    /\ []StartDayStored
    /\ [][\A u \in DOMAIN users, data \in StartDaySettingsInputs, today \in Clock :
            (settings(u, data, today) /\ Submitted(data))
            => ( /\ OthersApplied(u, data)
                 /\ users'[u].month_start_day =
                        IF NotStorable(data.month_start_day)
                        THEN users[u].month_start_day
                        ELSE JInt(data.month_start_day.n) )]_vars

\* 28.5 was submitted with a currency: 28 is stored and the currency applied
C21_Witness ==
    /\ resp.kind = "settings" /\ resp.status = 200
    /\ \E u \in DOMAIN users :
        /\ users[u].month_start_day = JInt(28)
        /\ users[u].currency_code = "USD"

(***************************************************************************)
(* Interleaved register and settings requests.  Each request is a record   *)
(* of inflight; every database operation of its handler is one step, and   *)
(* steps of different requests interleave freely.                          *)
(***************************************************************************)
MaxRequests == 3

\* a request that has been accepted by the server and not yet stepped
register_request(data) ==
    [op |-> "register", data |-> data, pc |-> "find_username", user |-> 0,
     update_data |-> [username |-> "", email |-> ""]]

\* load_user has run: user is the authenticated user's id
settings_request(u, data) ==
    [op |-> "settings", data |-> data, pc |-> "find_username", user |-> u,
     update_data |-> [username |-> "", email |-> ""], current_user |-> users[u]]

\* the request at slot i moves to pc, the others stay
Goto(i, pc) == inflight' = [inflight EXCEPT ![i].pc = pc]

\* users_collection.find_one({'username': username}) of register
register_find_username(i) ==
    /\ i \in DOMAIN inflight
    /\ inflight[i].op = "register" /\ inflight[i].pc = "find_username"
    /\ UNCHANGED <<now, users, categories, transactions, win, activities, user_badges>>
    /\ IF \E u \in DOMAIN users : users[u].username = inflight[i].data.username
       THEN /\ Goto(i, "done")
            /\ resp' = Reply("register", 400, "Username already exists")
       ELSE /\ Goto(i, "find_email")
            /\ UNCHANGED resp

\* users_collection.find_one({'email': email}) of register
register_find_email(i) ==
    /\ i \in DOMAIN inflight
    /\ inflight[i].op = "register" /\ inflight[i].pc = "find_email"
    /\ UNCHANGED <<now, users, categories, transactions, win, activities, user_badges>>
    /\ IF \E u \in DOMAIN users : users[u].email = inflight[i].data.email
       THEN /\ Goto(i, "done")
            /\ resp' = Reply("register", 400, "Email already exists")
       ELSE /\ Goto(i, "insert")
            /\ UNCHANGED resp

\* create_user and seed_default_categories of register
register_insert(i) ==
    /\ i \in DOMAIN inflight
    /\ inflight[i].op = "register" /\ inflight[i].pc = "insert"
    /\ UNCHANGED <<now, transactions, win, activities, user_badges>>
    /\ LET data == inflight[i].data
       IN  users' = Append(users, create_user(data.username, data.email,
                                              generate_password_hash(data.password)))
    /\ categories' = seed_default_categories(categories)
    /\ Goto(i, "done")
    /\ resp' = Reply("register", 201, "Registration successful")

\* the username block of settings; current_user is the record read by
\* load_user when the request began
settings_find_username(i) ==
    /\ i \in DOMAIN inflight
    /\ inflight[i].op = "settings" /\ inflight[i].pc = "find_username"
    /\ UNCHANGED <<now, users, categories, transactions, win, activities, user_badges>>
    /\ LET username == inflight[i].data.username
           current_user == inflight[i].current_user
       IN  IF username # "" /\ username # current_user.username
           THEN IF \E v \in DOMAIN users : users[v].username = username
                THEN /\ Goto(i, "done")
                     /\ resp' = Reply("settings", 400, "Username already taken")
                ELSE /\ inflight' = [inflight EXCEPT ![i].pc = "find_email",
                                                     ![i].update_data.username = username]
                     /\ UNCHANGED resp
           ELSE /\ Goto(i, "find_email")
                /\ UNCHANGED resp

\* the email block of settings
settings_find_email(i) ==
    /\ i \in DOMAIN inflight
    /\ inflight[i].op = "settings" /\ inflight[i].pc = "find_email"
    /\ UNCHANGED <<now, users, categories, transactions, win, activities, user_badges>>
    /\ LET email == inflight[i].data.email
           current_user == inflight[i].current_user
       IN  IF email # "" /\ email # current_user.email
           THEN IF \E v \in DOMAIN users : users[v].email = email
                THEN /\ Goto(i, "done")
                     /\ resp' = Reply("settings", 400, "Email already taken")
                ELSE /\ inflight' = [inflight EXCEPT ![i].pc = "update",
                                                     ![i].update_data.email = email]
                     /\ UNCHANGED resp
           ELSE /\ Goto(i, "update")
                /\ UNCHANGED resp

\* the rest of settings: currency, month_start_day, password, update_one
settings_update(i) ==
    /\ i \in DOMAIN inflight
    /\ inflight[i].op = "settings" /\ inflight[i].pc = "update"
    /\ UNCHANGED <<now, categories, transactions, win, activities, user_badges>>
    /\ LET data == inflight[i].data
           u == inflight[i].user
           update_data == inflight[i].update_data
           current_user == inflight[i].current_user
           currency == IF data.currency_code = "" THEN "INR" ELSE data.currency_code
       IN  IF data.new_password # "" /\ data.new_password # data.confirm_password
           THEN resp' = Reply("settings", 400, "Passwords do not match") /\ UNCHANGED users
           ELSE IF data.new_password # "" /\ Len(data.new_password) < 6
           THEN resp' = Reply("settings", 400, "Password must be at least 6 characters")
                /\ UNCHANGED users
           ELSE /\ users' = [users EXCEPT ![u] =
                      [@ EXCEPT
                         !.username = IF update_data.username # ""
                                      THEN update_data.username ELSE @,
                         !.email = IF update_data.email # "" THEN update_data.email ELSE @,
                         !.currency_code = upper(currency),
                         !.month_start_day =
                             LET v == data.month_start_day
                             IN  IF \/ v.t \in {"none", "missing"}
                                    \/ int_ok(v) /\ 1 <= v.n /\ v.n <= 28
                                 THEN settings_month_start_day(current_user, v)
                                 ELSE @,
                         !.password_hash = IF data.new_password # ""
                                           THEN generate_password_hash(data.new_password)
                                           ELSE @]]
                /\ resp' = Reply("settings", 200, "Settings updated")
    /\ Goto(i, "done")

RaceRegisterInputs ==
    {[username |-> "alice", email |-> "alice@example.com", password |-> "secret1"],
     [username |-> "bob", email |-> "bob@example.com", password |-> "secret2"]}

\* a change of username, a change of email
RaceSettingsInputs ==
    {[username |-> n, email |-> e, currency_code |-> "", month_start_day |-> JMissing,
      new_password |-> "", confirm_password |-> ""] :
        <<n, e>> \in {<<"bob", "">>, <<"", "bob@example.com">>}}

RaceRegisterBegin ==
    /\ Len(inflight) < MaxRequests
    /\ \E data \in RaceRegisterInputs : inflight' = Append(inflight, register_request(data))
    /\ UNCHANGED <<now, users, categories, transactions, resp, win, activities,
                   user_badges>>

RaceSettingsBegin ==
    /\ Len(inflight) < MaxRequests
    /\ \E u \in DOMAIN users, data \in RaceSettingsInputs :
            inflight' = Append(inflight,
                               settings_request(u, data))
    /\ UNCHANGED <<now, users, categories, transactions, resp, win, activities,
                   user_badges>>

RaceRegisterFindUsername == \E i \in DOMAIN inflight : register_find_username(i)
RaceRegisterFindEmail == \E i \in DOMAIN inflight : register_find_email(i)
RaceRegisterInsert == \E i \in DOMAIN inflight : register_insert(i)
RaceSettingsFindUsername == \E i \in DOMAIN inflight : settings_find_username(i)
RaceSettingsFindEmail == \E i \in DOMAIN inflight : settings_find_email(i)
RaceSettingsUpdate == \E i \in DOMAIN inflight : settings_update(i)

NextRace ==
    \/ RaceRegisterBegin
    \/ RaceSettingsBegin
    \/ RaceRegisterFindUsername
    \/ RaceRegisterFindEmail
    \/ RaceRegisterInsert
    \/ RaceSettingsFindUsername
    \/ RaceSettingsFindEmail
    \/ RaceSettingsUpdate

SpecRace == Init /\ [][NextRace]_vars

\* C22: no two user records ever share a username or an email, however the
\* steps of register and settings requests interleave.
C22_UniqueUsers ==
    \A u, v \in DOMAIN users :
        u # v => /\ users[u].username # users[v].username
                 /\ users[u].email # users[v].email

(***************************************************************************)
(* The carbon-footprint activities.  Emissions are counted in thousandths  *)
(* of a kg of CO2 and activity values in whole units (the code uses        *)
(* floats); unit and description of an activity are not modelled.          *)
(***************************************************************************)
CARBON_FACTORS ==
    [transport |-> [car |-> 200, bus |-> 50, train |-> 40, plane |-> 250,
                    bike |-> 0, walk |-> 0],
     electricity |-> [kwh |-> 500],
     food |-> [beef |-> 13300, chicken |-> 2900, fish |-> 3000, vegetables |-> 200,
               fruits |-> 300],
     waste |-> [kg |-> 500]]

\* an unknown pair priced at one kg per unit
carbon_emission_flat(category, activity_type, value) ==
    IF category \in DOMAIN CARBON_FACTORS
       /\ activity_type \in DOMAIN CARBON_FACTORS[category]
    THEN value * CARBON_FACTORS[category][activity_type]
    ELSE value * 1000

carbon_emission_of(category, activity_type, value) ==
    IF category \in DOMAIN CARBON_FACTORS
       /\ activity_type \in DOMAIN CARBON_FACTORS[category]
    THEN value * CARBON_FACTORS[category][activity_type]
    ELSE 0

\* the badges of initialize_default_data; 1000 kg is 1000000 thousandths
default_badges ==
    <<[name |-> "First Steps", requirement_type |-> "total_activities",
       requirement_value |-> 1],
      [name |-> "Week Warrior", requirement_type |-> "streak_days",
       requirement_value |-> 7],
      [name |-> "Month Master", requirement_type |-> "streak_days",
       requirement_value |-> 30],
      [name |-> "Eco Champion", requirement_type |-> "low_footprint",
       requirement_value |-> 1000000]>>

\* the User object load_user builds from a user document
User(id, user_data) ==
    [id |-> id, streak_days |-> user_data.streak_days,
     total_carbon_footprint |-> user_data.total_carbon_footprint]

award_badge(user, badge) == [user_id |-> user.id, badge_id |-> badge.name]

count_documents(acts, u) == Len(SelectSeq(acts, LAMBDA a : a.user_id = u))

\* check_badges(user): the user_badges collection after the loop, given the
\* activities and the user_badges collections before it
check_badges(user, acts, held) ==
    LET earns(badge) ==
            /\ ~\E i \in DOMAIN held :
                    held[i].user_id = user.id /\ held[i].badge_id = badge.name
            /\ CASE badge.requirement_type = "streak_days" ->
                        user.streak_days >= badge.requirement_value
                 [] badge.requirement_type = "total_activities" ->
                        count_documents(acts, user.id) >= badge.requirement_value
                 [] badge.requirement_type = "low_footprint" ->
                        user.total_carbon_footprint <= badge.requirement_value
                 [] OTHER -> FALSE
        won == SelectSeq(default_badges, earns)
    IN  held \o [i \in 1..Len(won) |-> award_badge(user, won[i])]

\* the streak block: new_streak from the user document just read and today
new_streak_of(user_data, today) ==
    LET last_activity_date == user_data.last_activity_date
        current_streak == user_data.streak_days
        diff == toordinal(today) - toordinal(last_activity_date)
    IN  IF ~IsError(last_activity_date)
        THEN IF diff = 1 THEN current_streak + 1
             ELSE IF diff > 1 THEN 1
             ELSE current_streak
        ELSE 1

\* POST /api/activities by user u; date is the clock read for the activity
\* document and today the later clock read of the streak block
activities_post(u, data, date, today) ==
    /\ u \in DOMAIN users
    /\ now' = today
    /\ win' = NoWindow
    /\ UNCHANGED <<categories, transactions, inflight>>
    /\ IF data.value.t # "int"
       THEN /\ resp' = Reply("activities", 500, "float() failed")
            /\ UNCHANGED <<users, activities, user_badges>>
       ELSE LET current_user == User(u, users[u])
                value == data.value.n
                carbon_emission == carbon_emission_of(data.category, data.activity_type,
                                                      value)
                activity_doc == [user_id |-> u, activity_type |-> data.activity_type,
                                 category |-> data.category, value |-> value,
                                 carbon_emission |-> carbon_emission, date |-> date]
                user_data == [users[u] EXCEPT !.total_carbon_footprint =
                                                    @ + carbon_emission]
                updated == [user_data EXCEPT
                                !.streak_days = new_streak_of(user_data, today),
                                !.last_activity_date = today]
            IN  /\ activities' = Append(activities, activity_doc)
                /\ users' = [users EXCEPT ![u] = updated]
                /\ user_badges' = check_badges(current_user, activities', user_badges)
                /\ resp' = [kind |-> "activities", status |-> 201,
                            message |-> "Activity logged successfully",
                            carbon_emission |-> carbon_emission]

(***************************************************************************)
(* Registrations and logged activities over a few consecutive days.        *)
(***************************************************************************)
MaxActivities == 2

ActivityDays == {<<2024, 2, 29>>, <<2024, 3, 1>>, <<2024, 3, 2>>, <<2024, 3, 3>>}

ActivityClock ==
    {[year |-> d[1], month |-> d[2], day |-> d[3], tod |-> 1] : d \in ActivityDays}

\* the two clock reads of one request: the same day, or midnight in between
ClockReads ==
    {r \in ActivityClock \X ActivityClock :
        /\ DtLe(now, r[1])
        /\ toordinal(r[2]) - toordinal(r[1]) \in {0, 1}}

\* a known pair, a known pair with a negative value, an unknown activity type
\* of a known category, an unknown category, and a value float() refuses
ActivityInputs ==
    {[category |-> "transport", activity_type |-> "car", value |-> JInt(10)],
     [category |-> "food", activity_type |-> "beef", value |-> JInt(-1)],
     [category |-> "food", activity_type |-> "dairy", value |-> JInt(3)],
     [category |-> "energy", activity_type |-> "kwh", value |-> JInt(4)],
     [category |-> "waste", activity_type |-> "kg", value |-> JNone]}

ActivitiesRegister ==
    \E data \in AccountsRegisterInputs : register(data, now)

PostActivity ==
    /\ Len(activities) < MaxActivities
    /\ \E u \in DOMAIN users, data \in ActivityInputs, r \in ClockReads :
            activities_post(u, data, r[1], r[2])

NextActivities == ActivitiesRegister \/ PostActivity

SpecActivities == Init /\ [][NextActivities]_vars

(***************************************************************************)
(* C23: the footprint total.                                               *)
(***************************************************************************)
RECURSIVE SumEmissions(_)
SumEmissions(acts) ==
    IF acts = <<>> THEN 0
    ELSE Head(acts).carbon_emission + SumEmissions(Tail(acts))

ActivitiesOf(u) == SelectSeq(activities, LAMBDA a : a.user_id = u)

KnownPair(category, activity_type) ==
    \E c \in DOMAIN CARBON_FACTORS :
        c = category /\ \E t \in DOMAIN CARBON_FACTORS[c] : t = activity_type

FootprintIsSum ==
    /\ \A u \in DOMAIN users :
            users[u].total_carbon_footprint = SumEmissions(ActivitiesOf(u))
    /\ \A i \in DOMAIN activities :
            LET a == activities[i]
            IN  a.carbon_emission =
                    IF KnownPair(a.category, a.activity_type)
                    THEN a.value * CARBON_FACTORS[a.category][a.activity_type]
                    ELSE 0

\* C23: a user's total_carbon_footprint is the sum of carbon_emission over
\* that user's stored activities, each carbon_emission being value times the
\* factor of a known (category, activity_type) pair and 0 for an unknown
\* pair; a request with an unknown pair still stores its activity.
C23_FootprintIsSum ==
    /\ []FootprintIsSum
    /\ [][\A u \in DOMAIN users, data \in ActivityInputs, r \in ClockReads :
            ( /\ activities_post(u, data, r[1], r[2])
              /\ data.value.t = "int"
              /\ ~KnownPair(data.category, data.activity_type) )
            => /\ Len(activities') = Len(activities) + 1
               /\ activities'[Len(activities')].user_id = u
               /\ activities'[Len(activities')].category = data.category
               /\ activities'[Len(activities')].carbon_emission = 0]_vars

\* a user with a priced activity and a stored activity of an unknown pair
C23_Witness ==
    \E u \in DOMAIN users :
        /\ users[u].total_carbon_footprint = 2000
        /\ \E i, j \in DOMAIN activities :
            /\ activities[i].user_id = u /\ activities[j].user_id = u
            /\ activities[i].activity_type = "car"
            /\ activities[j].activity_type = "dairy" /\ activities[j].value = 3

(***************************************************************************)
(* C24: the streak.                                                        *)
(***************************************************************************)
\* the streak loop of the demo-data script over the days that have
\* activities, given as ascending day numbers; last = 0 stands for None
RECURSIVE script_streak(_, _, _)
script_streak(days, streak_days, last_activity_date) ==
    IF days = <<>> THEN streak_days
    ELSE LET current_date == Head(days)
             next == IF last_activity_date = 0 THEN 1
                     ELSE IF current_date - last_activity_date = 1 THEN streak_days + 1
                     ELSE IF current_date - last_activity_date > 1 THEN 1
                     ELSE streak_days
         IN  script_streak(Tail(days), next, current_date)

RECURSIVE Ascending(_)
Ascending(S) ==
    IF S = {} THEN <<>>
    ELSE LET m == CHOOSE x \in S : \A y \in S : x <= y
         IN  <<m>> \o Ascending(S \ {m})

\* the day numbers of the distinct days on which u has an activity
ActiveDays(u) ==
    {toordinal(ActivitiesOf(u)[i].date) : i \in DOMAIN ActivitiesOf(u)}

StreakBounds ==
    \A u \in DOMAIN users :
        ActivitiesOf(u) # <<>> =>
            /\ users[u].streak_days >= 1
            /\ users[u].streak_days <= Cardinality(ActiveDays(u))
            /\ users[u].streak_days = script_streak(Ascending(ActiveDays(u)), 0, 0)

\* the streak rule of one logged activity, today being the current time
StreakStep(u, today) ==
    LET last == users[u].last_activity_date
        diff == toordinal(today) - toordinal(last)
    IN  /\ users'[u].last_activity_date = today
        /\ users'[u].streak_days =
               IF IsError(last) THEN 1
               ELSE IF diff = 1 THEN users[u].streak_days + 1
               ELSE IF diff > 1 THEN 1
               ELSE users[u].streak_days

\* C24: the first activity sets streak_days to 1, an activity one calendar
\* day after last_activity_date adds 1, a later one resets it to 1, one on
\* the same day leaves it unchanged, and last_activity_date becomes the
\* current time; hence a user with an activity has 1 <= streak_days <= the
\* number of distinct days with an activity, and streak_days is what the
\* demo-data script computes for the same active days.
C24_Streak ==
    /\ []StreakBounds
    /\ [][\A u \in DOMAIN users, data \in ActivityInputs, r \in ClockReads :
            (activities_post(u, data, r[1], r[2]) /\ data.value.t = "int")
            => StreakStep(u, r[2])]_vars

(***************************************************************************)
(* One user logging an activity per request, each request arriving on the  *)
(* day of the previous one or on the next day, long enough for a streak of *)
(* a week.                                                                 *)
(***************************************************************************)
MaxBadgeActivities == 7

NumBadgeDays == 8

\* the days from 2024-02-29 on
BadgeClock ==
    {MinusDays([year |-> 2024, month |-> 2, day |-> 29, tod |-> 1], -k) :
        k \in 0..(NumBadgeDays - 1)}

BadgeClockReads ==
    {r \in BadgeClock \X BadgeClock :
        /\ toordinal(r[1]) - toordinal(now) \in {0, 1}
        /\ toordinal(r[2]) - toordinal(r[1]) \in {0, 1}}

BadgeActivityInputs ==
    {[category |-> "transport", activity_type |-> "car", value |-> JInt(10)]}

BadgesRegister == \E data \in RegisterInputs : register(data, now)

PostBadgeActivity ==
    /\ Len(activities) < MaxBadgeActivities
    /\ \E u \in DOMAIN users, data \in BadgeActivityInputs, r \in BadgeClockReads :
            activities_post(u, data, r[1], r[2])

NextBadges == BadgesRegister \/ PostBadgeActivity

SpecBadges == Init /\ [][NextBadges]_vars

(***************************************************************************)
(* C25: the badges.                                                        *)
(***************************************************************************)
Holds(u, badge) ==
    \E i \in DOMAIN user_badges :
        user_badges[i].user_id = u /\ user_badges[i].badge_id = badge.name

\* the badge's requirement is met by the stored state
Met(u, badge) ==
    \/ /\ badge.requirement_type = "streak_days"
       /\ users[u].streak_days >= badge.requirement_value
    \/ /\ badge.requirement_type = "total_activities"
       /\ Len(ActivitiesOf(u)) >= badge.requirement_value

NoBadgeTwice ==
    \A i, j \in DOMAIN user_badges : i # j => user_badges[i] # user_badges[j]

\* C25: when a POST /api/activities request completes, the user holds every
\* streak_days and total_activities badge whose requirement the stored state
\* meets (a streak badge is awarded by the request that raises the streak to
\* its threshold), and no user holds the same badge twice.
C25_BadgesAwarded ==
    /\ \A u \in DOMAIN users :
        \A k \in DOMAIN default_badges :
            Met(u, default_badges[k]) => Holds(u, default_badges[k])
    /\ NoBadgeTwice

=============================================================================
